---------------------------- MODULE Spec2Model ----------------------------
(***************************************************************************)
(* A model of mysh (src/mysh.cpp): the read-eval loop run_sh, the command  *)
(* parser (class Command), the history stack (class Command_Stack), the    *)
(* vector of child pids and the ten built-in operations.                   *)
(*                                                                         *)
(* Text is modelled as a sequence of atoms.  An atom is a piece of text    *)
(* that holds no blank and no comma ("background", "p", "1", "-c"), the    *)
(* blank " " or the comma ",".  tokenize splits on the blank atom exactly  *)
(* as strtok_r(rest, " ", &rest) does, so a token is a non-empty sequence  *)
(* of non-blank atoms.                                                     *)
(*                                                                         *)
(* Not modelled: the mismatched delete/free of the argument arrays and the *)
(* one-slot overrun args[numArgs] = NULL in start/background; the model    *)
(* takes the outcome of every mainstream build (the call goes through).    *)
(***************************************************************************)
EXTENDS Integers, Sequences, FiniteSets, TLC

VARIABLES
    pc,            \* "run_sh": in the loop; "done": main returned; "aborted"
    status,        \* int status: 1 run, 0 end
    currentdir,    \* string currentdir, a sequence of atoms
    child_pids,    \* vector<int> child_pids
    historyStack,  \* Command_Stack::historyStack, front first
    file,          \* mysh_history.txt: NoFile or its text
    procs,         \* the OS process table of the children: pid -> image or NoProc
    cmd,           \* run_sh's local cmd: the text of the line last read
    sent,          \* the pids kill(pid, SIGTERM) was called with in the last step
    forked,        \* the children fork created in the last step
    out,           \* the lines the last step wrote to the console
    ran            \* the commands executeCommand dispatched in the last step

vars == <<pc, status, currentdir, child_pids, historyStack, file, procs,
          cmd, sent, forked, out, ran>>

-----------------------------------------------------------------------------
(* Bounds *)

\* pids the OS hands out: 1..MaxPid
MaxPid == 2

\* a line that would be pushed is read only while the history holds fewer entries
MaxHist == 3

-----------------------------------------------------------------------------
(* Text *)

Sp == " "
Comma == ","

\* the words of ws joined by single blanks
RECURSIVE Words(_)
Words(ws) ==
    IF ws = <<>> THEN <<>>
    ELSE IF Len(ws) = 1 THEN <<ws[1]>>
    ELSE <<ws[1], Sp>> \o Words(Tail(ws))

Digits == <<"0", "1", "2", "3", "4", "5", "6", "7", "8", "9">>

IsDigit(a) == \E d \in 1..10 : Digits[d] = a

DigitVal(a) == (CHOOSE d \in 1..10 : Digits[d] = a) - 1

\* the value of the longest prefix of digits of t from position i on, after acc
RECURSIVE DigitsFrom(_, _, _)
DigitsFrom(t, i, acc) ==
    IF i > Len(t) \/ ~IsDigit(t[i]) THEN acc
    ELSE DigitsFrom(t, i + 1, 10 * acc + DigitVal(t[i]))

\* std::stoi of a token: an optional sign, then the longest run of digits; what
\* follows the digits is ignored; with no digit it throws std::invalid_argument
stoi(t) ==
    LET signed == t # <<>> /\ t[1] \in {"-", "+"}
        first  == IF signed THEN 2 ELSE 1
        ok     == first <= Len(t) /\ IsDigit(t[first])
        mag    == DigitsFrom(t, first, 0)
    IN  [ok |-> ok,
         val |-> IF ~ok THEN 0 ELSE IF signed /\ t[1] = "-" THEN 0 - mag ELSE mag]

-----------------------------------------------------------------------------
(* class Command *)

movetodir_sym == 0
whereami_sym == 1
history_sym == 2
byebye_sym == 3
replay_sym == 4
start_sym == 5
background_sym == 6
dalek_sym == 7
repeat_sym == 8
dalekall_sym == 9

KEYWORDS == << <<"movetodir">>, <<"whereami">>, <<"history">>, <<"byebye">>,
               <<"replay">>, <<"start">>, <<"background">>, <<"dalek">>,
               <<"repeat">>, <<"dalekall">> >>

\* strtok_r(rest, " ", &rest) until it returns NULL: cur is the token being
\* read, acc the tokens read
RECURSIVE tokenizeFrom(_, _, _, _)
tokenizeFrom(s, i, cur, acc) ==
    IF i > Len(s) THEN (IF cur = <<>> THEN acc ELSE Append(acc, cur))
    ELSE IF s[i] = Sp
         THEN tokenizeFrom(s, i + 1, <<>>, IF cur = <<>> THEN acc ELSE Append(acc, cur))
         ELSE tokenizeFrom(s, i + 1, Append(cur, s[i]), acc)

tokenize(cmdInput) == tokenizeFrom(cmdInput, 1, <<>>, <<>>)

getCommandNum(command) ==
    IF \E i \in 1..Len(KEYWORDS) : KEYWORDS[i] = command
    THEN (CHOOSE i \in 1..Len(KEYWORDS) : KEYWORDS[i] = command) - 1
    ELSE -1

\* the text tokenized[0] reads when the vector is empty, if the read returns
Garbage == <<"?">>

\* Command::Command(input).  With no token, command = tokenized[0] reads past an
\* empty vector: RunSh draws that outcome; here command is Garbage.
Command(input) ==
    LET tokenized == tokenize(input)
        command   == IF tokenized = <<>> THEN Garbage ELSE tokenized[1]
    IN  [cmdInput   |-> input,
         tokenized  |-> tokenized,
         numTokens  |-> Len(tokenized),
         command    |-> command,
         commandNum |-> getCommandNum(command),
         args       |-> IF tokenized = <<>> THEN <<>> ELSE Tail(tokenized)]

\* a mutant: dalek and whereami take any number of arguments
hasCorrectNumArgs_Lax(c) ==
    LET numArgs == Len(c.args)
    IN  CASE c.commandNum = movetodir_sym  -> numArgs = 1
          [] c.commandNum = whereami_sym   -> TRUE
          [] c.commandNum = history_sym    -> numArgs = 0 \/ numArgs = 1
          [] c.commandNum = byebye_sym     -> numArgs = 0
          [] c.commandNum = replay_sym     -> numArgs = 1
          [] c.commandNum = start_sym      -> numArgs >= 1
          [] c.commandNum = background_sym -> numArgs >= 1
          [] c.commandNum = dalek_sym      -> numArgs >= 1
          [] c.commandNum = repeat_sym     -> numArgs >= 2
          [] c.commandNum = dalekall_sym   -> numArgs = 0
          [] OTHER -> FALSE

hasCorrectNumArgs(c) ==
    LET numArgs == Len(c.args)
    IN  CASE c.commandNum = movetodir_sym  -> numArgs = 1
          [] c.commandNum = whereami_sym   -> numArgs = 0
          [] c.commandNum = history_sym    -> numArgs = 0 \/ numArgs = 1
          [] c.commandNum = byebye_sym     -> numArgs = 0
          [] c.commandNum = replay_sym     -> numArgs = 1
          [] c.commandNum = start_sym      -> numArgs >= 1
          [] c.commandNum = background_sym -> numArgs >= 1
          [] c.commandNum = dalek_sym      -> numArgs = 1
          [] c.commandNum = repeat_sym     -> numArgs >= 2
          [] c.commandNum = dalekall_sym   -> numArgs = 0
          [] OTHER -> FALSE

validCmd(c) == c.commandNum >= 0 /\ hasCorrectNumArgs(c)

hasArgs(c) == c.args # <<>>

argsIs(c, arg) == c.args[1] = arg

-----------------------------------------------------------------------------
(* class Command_Stack *)

\* An entry of historyStack: the Command's cmdInput (its other fields are
\* Command(cmdInput)) and its replayNum.  The constructor never sets replayNum:
\* until printHistory writes it, assigned is FALSE and its value indeterminate.
Entry(input) == [cmdInput |-> input, replayNum |-> 0, assigned |-> FALSE]

\* a mutant: the entries are numbered from the back
printHistory_FromBack(h) ==
    [k \in 1..Len(h) |->
        [cmdInput |-> h[k].cmdInput, replayNum |-> Len(h) - k, assigned |-> TRUE]]

\* a mutant: the entry at the front is dropped while the others are numbered
printHistory_DropsFront(h) ==
    [k \in 1..(Len(h) - 1) |->
        [cmdInput |-> h[k + 1].cmdInput, replayNum |-> k - 1, assigned |-> TRUE]]

\* printHistory: numbers the entries from the front (begin()) of the list
printHistory(h) ==
    [k \in 1..Len(h) |-> [cmdInput |-> h[k].cmdInput, replayNum |-> k - 1, assigned |-> TRUE]]

printHistoryOut(h) ==
    IF Len(h) = 0 THEN <<>>
    ELSE <<[msg |-> "History:"]>> \o
         [k \in 1..Len(h) |-> [msg |-> "entry", iter |-> k - 1, text |-> h[k].cmdInput]]

\* the Command findReplayNum returns when it finds nothing
NotFound == <<"0">>

\* a mutant: the number is the entry's position at the time of the query
RECURSIVE findReplayNumFrom_Fresh(_, _, _, _)
findReplayNumFrom_Fresh(h, k, replayArg, c) ==
    IF k > Len(h) THEN {[thrown |-> FALSE, found |-> NotFound, out |-> <<>>]}
    ELSE IF k - 1 # replayArg THEN findReplayNumFrom_Fresh(h, k + 1, replayArg, c)
    ELSE IF Command(h[k].cmdInput).commandNum = replay_sym
         THEN {[thrown |-> FALSE, found |-> NotFound,
                out |-> <<[msg |-> "Invalid Command: ", requester |-> c.command,
                           text |-> h[k].cmdInput]>>]}
    ELSE {[thrown |-> FALSE, found |-> h[k].cmdInput, out |-> <<>>]}

\* a mutant: after the diagnostic the loop goes on (continue for break)
RECURSIVE findReplayNumFrom_GoesOn(_, _, _, _)
findReplayNumFrom_GoesOn(h, k, replayArg, c) ==
    IF k > Len(h) THEN {[thrown |-> FALSE, found |-> NotFound, out |-> <<>>]}
    ELSE (IF ~(~h[k].assigned \/ h[k].replayNum = replayArg) THEN {}
          ELSE IF Command(h[k].cmdInput).commandNum = replay_sym
               THEN {[r EXCEPT !.out = <<[msg |-> "Invalid Command: ",
                                          requester |-> c.command,
                                          text |-> h[k].cmdInput]>> \o @]
                     : r \in findReplayNumFrom_GoesOn(h, k + 1, replayArg, c)}
               ELSE {[thrown |-> FALSE, found |-> h[k].cmdInput, out |-> <<>>]})
         \cup
         (IF ~h[k].assigned \/ h[k].replayNum # replayArg
          THEN findReplayNumFrom_GoesOn(h, k + 1, replayArg, c) ELSE {})

\* the body of findReplayNum's loop at entry k: replayArg == it->replayNum reads an
\* indeterminate value when the entry was never numbered, so both outcomes are drawn
RECURSIVE findReplayNumFrom(_, _, _, _)
findReplayNumFrom(h, k, replayArg, c) ==
    IF k > Len(h) THEN {[thrown |-> FALSE, found |-> NotFound, out |-> <<>>]}
    ELSE LET it == h[k]
             mayMatch == ~it.assigned \/ it.replayNum = replayArg
             mayDiffer == ~it.assigned \/ it.replayNum # replayArg
         IN  (IF ~mayMatch THEN {}
              ELSE IF Command(it.cmdInput).commandNum = replay_sym
                   THEN {[thrown |-> FALSE, found |-> NotFound,
                          out |-> <<[msg |-> "Invalid Command: ", requester |-> c.command,
                                     text |-> it.cmdInput]>>]}
                   ELSE {[thrown |-> FALSE, found |-> it.cmdInput, out |-> <<>>]})
             \cup
             (IF mayDiffer THEN findReplayNumFrom(h, k + 1, replayArg, c) ELSE {})

\* findReplayNum(cmd): the outcomes, each the cmdInput of the Command returned;
\* stoi runs inside the loop, so it throws only on a non-empty history
findReplayNum(h, c) ==
    IF Len(h) = 0 THEN {[thrown |-> FALSE, found |-> NotFound, out |-> <<>>]}
    ELSE IF ~stoi(c.args[1]).ok THEN {[thrown |-> TRUE, found |-> NotFound, out |-> <<>>]}
    ELSE findReplayNumFrom(h, 1, stoi(c.args[1]).val, c)

push(h, input) == <<Entry(input)>> \o h

\* the text printToFile writes (before the newline): the entries from the front,
\* a comma between two
RECURSIVE joinEntries(_)
joinEntries(h) ==
    IF h = <<>> THEN <<>>
    ELSE IF Len(h) = 1 THEN h[1].cmdInput
    ELSE h[1].cmdInput \o <<Comma>> \o joinEntries(Tail(h))

NoFile == [exists |-> FALSE, text |-> <<>>]

printToFile(h, f) ==
    IF Len(h) = 0 THEN f ELSE [exists |-> TRUE, text |-> joinEntries(h)]

\* getline(stream, cmd, ',') until it fails: the pieces of the line between the
\* commas; after the last comma an empty rest gives no piece
RECURSIVE splitFrom(_, _, _, _)
splitFrom(s, i, cur, acc) ==
    IF i > Len(s) THEN (IF cur = <<>> THEN acc ELSE Append(acc, cur))
    ELSE IF s[i] = Comma THEN splitFrom(s, i + 1, <<>>, Append(acc, cur))
    ELSE splitFrom(s, i + 1, Append(cur, s[i]), acc)

\* readFromFile into the empty list: a Command for every piece, pushed at the
\* back in the order read; with no file the list stays empty
readFromFile(f) ==
    IF ~f.exists THEN <<>>
    ELSE LET cmdsIn == splitFrom(f.text, 1, <<>>, <<>>)
         IN  [k \in 1..Len(cmdsIn) |-> Entry(cmdsIn[k])]

-----------------------------------------------------------------------------
(* The operating system *)

Pids == 1..MaxPid

NoProc == [file |-> <<>>, argv |-> <<>>]

\* fork(): the pid of the child, any pid no running process holds, or -1
fork(S) == {-1} \cup {p \in Pids : S.procs[p] = NoProc}

\* kill(pid, SIGTERM): the process, if there is one, ends
kill(S, pid) ==
    [S EXCEPT !.sent = Append(@, pid),
              !.procs = [p \in Pids |-> IF p = pid THEN NoProc ELSE @[p]]]

\* get_current_dir_name(): the directory the shell was launched in; nothing in
\* the program calls chdir
LaunchDir == <<"/", "home">>

\* the directories of the file system, as absolute paths
Directories == {<<"/", "home">>, <<"/", "home", "/", "a">>,
                <<"/", "home", "/", "a", "/", "b">>, <<"/", "tmp">>}

\* the absolute path opendir(arg) opens, resolved from the launch directory
Resolve(arg) ==
    IF arg[1] = "/" THEN arg
    ELSE IF arg = <<".">> THEN LaunchDir
    ELSE IF Len(arg) > 2 /\ arg[1] = "." /\ arg[2] = "/"
         THEN LaunchDir \o <<"/">> \o SubSeq(arg, 3, Len(arg))
    ELSE LaunchDir \o <<"/">> \o arg

opendir(arg) == Resolve(arg) \in Directories

\* what char path[BUFFER_MAX] may hold up to its first NUL before it is written
PathGarbage == {<<>>, Garbage}

-----------------------------------------------------------------------------
(* The operations.  Each takes the program state S (the globals, the process   *)
(* table and what the cycle did so far) and returns the set of states it may   *)
(* leave: one per outcome of fork and of each indeterminate read.  S.thrown    *)
(* says an exception is propagating.                                           *)

say(S, line) == [S EXCEPT !.out = Append(@, line)]

throw(S) == [S EXCEPT !.thrown = TRUE]

whereami(S) == {say(S, [msg |-> "currentdir", text |-> S.currentdir])}

\* a mutant: the directory is tracked although opendir failed
moveToDir_MovesAnyway(S, c) ==
    LET arg == c.args[1]
        notFound == say(S, [msg |-> "Directory not found", text |-> arg])
    IN  IF ~opendir(arg)
        THEN {[notFound EXCEPT !.currentdir = LaunchDir \o <<"/">> \o arg \o <<"/">>]}
        ELSE IF arg[1] # "." /\ arg[1] # "/"
             THEN {[S EXCEPT !.currentdir = LaunchDir \o <<"/">> \o arg \o <<"/">>]}
        ELSE IF arg[1] = "/"
             THEN {[S EXCEPT !.currentdir = g \o arg \o <<"/">>] : g \in PathGarbage}
        ELSE {notFound}

moveToDir(S, c) ==
    LET arg == c.args[1]
        notFound == say(S, [msg |-> "Directory not found", text |-> arg])
    IN  IF ~opendir(arg) THEN {notFound}
        ELSE IF arg[1] # "." /\ arg[1] # "/"
             THEN {[S EXCEPT !.currentdir = LaunchDir \o <<"/">> \o arg \o <<"/">>]}
        ELSE IF arg[1] = "/"
             \* strcat onto path, which nothing has written
             THEN {[S EXCEPT !.currentdir = g \o arg \o <<"/">>] : g \in PathGarbage}
        ELSE {notFound}

\* a mutant: the list is emptied and the file is left
clearHistory_KeepsFile(S) ==
    {say([S EXCEPT !.historyStack = <<>>], [msg |-> "History Cleared"])}

clearHistory(S) ==
    {say([S EXCEPT !.historyStack = <<>>, !.file = NoFile], [msg |-> "History Cleared"])}

\* start: the shell waits for the child, which has ended when start returns
start(S, c) ==
    LET numArgs == Len(c.args)
        programPath == IF numArgs = 1 THEN S.currentdir \o c.args[1] ELSE c.args[1]
    IN  {IF c_pid = -1
         THEN say(S, [msg |-> "Failed forking child.."])
         ELSE [S EXCEPT !.forked = Append(@, [pid |-> c_pid, file |-> programPath,
                                              argv |-> c.args, waited |-> TRUE])]
         : c_pid \in fork(S)}

\* a mutant: the pid is pushed whatever fork returned
background_PushesAlways(S, c) ==
    {[st |-> say([S EXCEPT
                   !.child_pids = Append(@, c_pid),
                   !.procs = [p \in Pids |-> IF p = c_pid
                                             THEN [file |-> c.args[1], argv |-> c.args]
                                             ELSE @[p]],
                   !.forked = IF c_pid = -1 THEN @
                              ELSE Append(@, [pid |-> c_pid, file |-> c.args[1],
                                              argv |-> c.args, waited |-> FALSE])],
                 [msg |-> "PID: ", pid |-> c_pid]),
      pid |-> c_pid]
     : c_pid \in fork(S)}

\* background: the outcomes, each with the pid returned
background(S, c) ==
    {IF c_pid = -1
     THEN [st |-> say(S, [msg |-> "Failed forking child.."]), pid |-> c_pid]
     ELSE [st |-> say([S EXCEPT
                        !.child_pids = Append(@, c_pid),
                        !.procs = [@ EXCEPT ![c_pid] = [file |-> c.args[1], argv |-> c.args]],
                        !.forked = Append(@, [pid |-> c_pid, file |-> c.args[1],
                                              argv |-> c.args, waited |-> FALSE])],
                      [msg |-> "PID: ", pid |-> c_pid]),
           pid |-> c_pid]
     : c_pid \in fork(S)}

\* the states after n calls of background(c), one after the other
RECURSIVE backgroundTimes(_, _, _)
backgroundTimes(S, c, n) ==
    IF n <= 0 THEN {S}
    ELSE UNION {backgroundTimes(r.st, c, n - 1) : r \in background(S, c)}

\* the text repeat builds: "background" + " " + every argument after the count,
\* each followed by a blank
RECURSIVE argsFrom(_, _)
argsFrom(args, i) ==
    IF i > Len(args) THEN <<>> ELSE args[i] \o <<Sp>> \o argsFrom(args, i + 1)

\* a mutant: the word after the count is dropped
cmdStr_DropsVerb(c) == <<"background", Sp>> \o argsFrom(c.args, 3)

cmdStr(c) == <<"background", Sp>> \o argsFrom(c.args, 2)

repeat(S, c) ==
    LET nTimes == stoi(c.args[1])
        rptCmd == Command(cmdStr(c))
    IN  IF ~nTimes.ok THEN {throw(S)}                  \* std::invalid_argument
        ELSE IF ~validCmd(rptCmd)
             THEN {say(S, [msg |-> "Invalid Command: ", text |-> c.cmdInput])}
        ELSE IF nTimes.val < 0 THEN {throw(S)}         \* new int[nTimes]
        ELSE backgroundTimes(S, rptCmd, nTimes.val)

\* the index of pid in child_pids, from 0, or -1
findChildPid(S, pid) ==
    IF \E i \in 1..Len(S.child_pids) : S.child_pids[i] = pid
    THEN (CHOOSE i \in 1..Len(S.child_pids) :
              /\ S.child_pids[i] = pid
              /\ \A j \in 1..(i - 1) : S.child_pids[j] # pid) - 1
    ELSE -1

\* child_pids.erase of the element at index idx (from 0)
erase(v, idx) == SubSeq(v, 1, idx) \o SubSeq(v, idx + 2, Len(v))

\* a mutant: only a registered pid is signalled
dalek_OnlyRegistered(S, c) ==
    LET pidToKill == stoi(c.args[1])
        idx == findChildPid(S, pidToKill.val)
    IN  IF ~pidToKill.ok THEN {throw(S)}
        ELSE IF idx >= 0
             THEN {[kill(S, pidToKill.val) EXCEPT !.child_pids = erase(@, idx)]}
             ELSE {say(S, [msg |-> "Could not terminate PID: ", pid |-> pidToKill.val])}

dalek(S, c) ==
    LET pidToKill == stoi(c.args[1])
        idx == findChildPid(S, pidToKill.val)
        K == kill(S, pidToKill.val)
    IN  IF ~pidToKill.ok THEN {throw(S)}               \* std::invalid_argument
        ELSE IF idx >= 0
             THEN {[K EXCEPT !.child_pids = erase(@, idx)]}
             ELSE {say(K, [msg |-> "Could not terminate PID: ", pid |-> pidToKill.val])}

RECURSIVE killAll(_, _)
killAll(S, pids) ==
    IF pids = <<>> THEN S ELSE killAll(kill(S, pids[1]), Tail(pids))

\* a mutant: the loop stops one entry short
dalekall_StopsShort(S) ==
    LET size == Len(S.child_pids)
    IN  {say([killAll(S, SubSeq(S.child_pids, 1, size - 1)) EXCEPT !.child_pids = <<>>],
             [msg |-> "Exterminating", size |-> size, pids |-> S.child_pids])}

dalekall(S) ==
    LET size == Len(S.child_pids)
    IN  {say([killAll(S, S.child_pids) EXCEPT !.child_pids = <<>>],
             [msg |-> "Exterminating", size |-> size, pids |-> S.child_pids])}

\* executeCommand(cmd): the outcomes, each the state left and the value returned
RECURSIVE executeCommand(_, _)
executeCommand(S, c) ==
    LET R == [S EXCEPT !.ran = Append(@, c.cmdInput)]
        done(states) == {[st |-> T, ret |-> TRUE] : T \in states}
    IN  IF ~validCmd(c) THEN {[st |-> S, ret |-> FALSE]}
        ELSE CASE c.commandNum = movetodir_sym -> done(moveToDir(R, c))
               [] c.commandNum = whereami_sym -> done(whereami(R))
               [] c.commandNum = history_sym ->
                    IF c.numTokens = 1
                    THEN done({[R EXCEPT !.historyStack = printHistory(@),
                                         !.out = @ \o printHistoryOut(R.historyStack)]})
                    ELSE IF c.numTokens = 2 /\ argsIs(c, <<"-c">>)
                         THEN done(clearHistory(R))
                    ELSE {[st |-> S, ret |-> FALSE]}
               [] c.commandNum = byebye_sym -> done({[R EXCEPT !.status = 0]})
               [] c.commandNum = replay_sym ->
                    UNION {IF f.thrown THEN done({throw(R)})
                           ELSE done({e.st : e \in executeCommand(
                                        [R EXCEPT !.out = @ \o f.out], Command(f.found))})
                           : f \in findReplayNum(R.historyStack, c)}
               [] c.commandNum = start_sym -> done(start(R, c))
               [] c.commandNum = background_sym -> done({r.st : r \in background(R, c)})
               [] c.commandNum = dalek_sym -> done(dalek(R, c))
               [] c.commandNum = repeat_sym -> done(repeat(R, c))
               [] c.commandNum = dalekall_sym -> done(dalekall(R))
               [] OTHER -> {[st |-> S, ret |-> FALSE]}

getHelp(c) == c.cmdInput = <<"help">>

-----------------------------------------------------------------------------
(* The lines the user types *)

InvalidLines ==
    {Words(<<"ls">>),
     Words(<<"movetodir">>), Words(<<"movetodir", "a", "b">>),
     Words(<<"whereami", "x">>),
     Words(<<"history", "x", "y">>),
     Words(<<"byebye", "x">>),
     Words(<<"replay">>), Words(<<"replay", "0", "1">>),
     Words(<<"start">>),
     Words(<<"background">>),
     Words(<<"dalek">>), Words(<<"dalek", "1", "2">>),
     Words(<<"repeat">>), Words(<<"repeat", "2">>),
     Words(<<"dalekall", "x">>),
     <<>>, <<Sp>>}

\* directories opendir opens
MoveToDirLines == {<<"movetodir", Sp, "a">>, <<"movetodir", Sp, "/", "tmp">>}

\* a directory that does not exist, and one named from "."
MoveToDirRefusedLines ==
    {<<"movetodir", Sp, "nodir">>, <<"movetodir", Sp, ".", "/", "a">>}

\* a directory that exists in /home/a and not in the launch directory
MoveToDirNestedLines == {<<"movetodir", Sp, "b">>}

HistoryLines == {Words(<<"history">>), Words(<<"history", "-c">>), Words(<<"history", "x">>)}

ReplayLines == {Words(<<"replay", "0">>), Words(<<"replay", "1">>)}

StartLines == {Words(<<"start", "p">>), Words(<<"start", "p", "a">>)}

BackgroundLines == {Words(<<"background", "p", "a">>)}

DalekLines == {Words(<<"dalek", "1">>), Words(<<"dalek", "2">>), Words(<<"dalek", "9">>)}

RepeatLines ==
    {Words(<<"repeat", "2", "p", "a">>), Words(<<"repeat", "2", "background", "p", "a">>),
     Words(<<"repeat", "0", "p", "a">>)}

\* valid commands whose argument is no number, or a negative one
BadArgumentLines ==
    {Words(<<"replay", "x">>), Words(<<"dalek", "x">>), Words(<<"repeat", "x", "p">>),
     <<"repeat", Sp, "-", "1", Sp, "p">>}

\* a valid command with a comma in its last argument
CommaLines == {<<"start", Sp, "p", Sp, "a", Comma, "b">>}

-----------------------------------------------------------------------------
(* The shell *)

\* main up to run_sh's loop: status = 1, no history file yet, currentdir the
\* launch directory and a "/"
Init ==
    /\ pc = "run_sh"
    /\ status = 1
    /\ currentdir = LaunchDir \o <<"/">>
    /\ child_pids = <<>>
    /\ historyStack = <<>>
    /\ file = NoFile
    /\ procs = [p \in Pids |-> NoProc]
    /\ cmd = <<>>
    /\ sent = <<>>
    /\ forked = <<>>
    /\ out = <<>>
    /\ ran = <<>>

\* the state a cycle starts from
Entering ==
    [status |-> status, currentdir |-> currentdir, child_pids |-> child_pids,
     historyStack |-> historyStack, file |-> file, procs |-> procs,
     sent |-> <<>>, forked |-> <<>>, out |-> <<>>, ran |-> <<>>, thrown |-> FALSE]

\* a mutant: "history -c" is pushed like any other command
pushes_AlsoClear(c, validCmdRet) ==
    validCmd(c) /\ c.commandNum # byebye_sym /\ validCmdRet

\* run_sh's test after executeCommand: does the cycle push cmd
pushes(c, validCmdRet) ==
    /\ validCmd(c) /\ c.commandNum # byebye_sym /\ validCmdRet
    /\ \/ (hasArgs(c) /\ (c.commandNum # history_sym \/ ~argsIs(c, <<"-c">>)))
       \/ ~hasArgs(c)

\* run_sh's break: the else-if of that test
breaks(c, validCmdRet) ==
    /\ ~(validCmd(c) /\ c.commandNum # byebye_sym /\ validCmdRet)
    /\ c.commandNum = byebye_sym

\* the cycle ends in state T: the loop goes on, or (leaving) main writes the
\* history file and returns, or (T.thrown) the uncaught exception ends the process
Leave(T, l, leaving) ==
    /\ cmd' = l
    /\ status' = T.status
    /\ currentdir' = T.currentdir
    /\ child_pids' = T.child_pids
    /\ historyStack' = T.historyStack
    /\ procs' = T.procs
    /\ sent' = T.sent
    /\ forked' = T.forked
    /\ out' = T.out
    /\ ran' = T.ran
    /\ pc' = IF T.thrown THEN "aborted" ELSE IF leaving THEN "done" ELSE "run_sh"
    /\ file' = IF ~T.thrown /\ leaving THEN printToFile(T.historyStack, T.file) ELSE T.file

\* one turn of run_sh's loop on the line l, then the loop test while (status)
RunSh(l) ==
    /\ pc = "run_sh"
    /\ LET c == Command(l)
       IN  IF c.tokenized = <<>>
           \* command = tokenized[0] on an empty vector
           THEN \/ Leave(throw(Entering), l, FALSE)
                \/ Leave(say(Entering, [msg |-> "Invalid command: ", text |-> l]), l, FALSE)
           ELSE IF getHelp(c)
           THEN Leave(say(Entering, [msg |-> "help"]), l, FALSE)
           ELSE \E e \in executeCommand(Entering, c) :
                  IF e.st.thrown THEN Leave(e.st, l, FALSE)
                  ELSE IF pushes(c, e.ret)
                  THEN /\ Len(e.st.historyStack) < MaxHist
                       /\ Leave([e.st EXCEPT !.historyStack = push(@, l)], l,
                                e.st.status = 0)
                  ELSE IF validCmd(c) /\ c.commandNum # byebye_sym /\ e.ret
                  THEN Leave(e.st, l, e.st.status = 0)
                  ELSE IF breaks(c, e.ret)
                  THEN Leave(e.st, l, TRUE)
                  ELSE Leave(say(e.st, [msg |-> "Invalid command: ", text |-> l]), l,
                             e.st.status = 0)

\* the turns of the loop, by what the line read is
Help ==
    /\ pc = "run_sh"
    /\ RunSh(<<"help">>)

Invalid ==
    /\ pc = "run_sh"
    /\ \E l \in InvalidLines : RunSh(l)

MoveToDir ==
    /\ pc = "run_sh"
    /\ \E l \in MoveToDirLines : RunSh(l)

MoveToDirRefused ==
    /\ pc = "run_sh"
    /\ \E l \in MoveToDirRefusedLines : RunSh(l)

MoveToDirNested ==
    /\ pc = "run_sh"
    /\ \E l \in MoveToDirNestedLines : RunSh(l)

Whereami ==
    /\ pc = "run_sh"
    /\ RunSh(<<"whereami">>)

History ==
    /\ pc = "run_sh"
    /\ \E l \in HistoryLines : RunSh(l)

ByeBye ==
    /\ pc = "run_sh"
    /\ RunSh(<<"byebye">>)

Replay ==
    /\ pc = "run_sh"
    /\ \E l \in ReplayLines : RunSh(l)

Start ==
    /\ pc = "run_sh"
    /\ \E l \in StartLines : RunSh(l)

Background ==
    /\ pc = "run_sh"
    /\ \E l \in BackgroundLines : RunSh(l)

Dalek ==
    /\ pc = "run_sh"
    /\ \E l \in DalekLines : RunSh(l)

Repeat ==
    /\ pc = "run_sh"
    /\ \E l \in RepeatLines : RunSh(l)

DalekAll ==
    /\ pc = "run_sh"
    /\ RunSh(<<"dalekall">>)

BadArgument ==
    /\ pc = "run_sh"
    /\ \E l \in BadArgumentLines : RunSh(l)

WithComma ==
    /\ pc = "run_sh"
    /\ \E l \in CommaLines : RunSh(l)

\* the shell is launched again after it ended: main sets status, readFromFile
\* loads the history file, run_sh sets currentdir.  The new process has no
\* children; those of the old one run on.  A piece with no token makes
\* Command's tokenized[0] read past an empty vector, as in RunSh.
Main ==
    /\ pc \in {"done", "aborted"}
    /\ LET h == readFromFile(file)
       IN  /\ historyStack' = h
           /\ \/ pc' = "run_sh"
              \/ /\ \E k \in 1..Len(h) : tokenize(h[k].cmdInput) = <<>>
                 /\ pc' = "aborted"
    /\ status' = 1
    /\ currentdir' = LaunchDir \o <<"/">>
    /\ child_pids' = <<>>
    /\ cmd' = <<>>
    /\ sent' = <<>>
    /\ forked' = <<>>
    /\ out' = <<>>
    /\ ran' = <<>>
    /\ UNCHANGED <<file, procs>>

\* a background child ends on its own; SIGCHLD is ignored, so its pid is free
\* again.  The shell does nothing in this step: sent, forked, out and ran, which
\* record what the last step did, are empty after it.
ChildExit ==
    /\ \E p \in Pids :
         /\ procs[p] # NoProc
         /\ procs' = [procs EXCEPT ![p] = NoProc]
    /\ sent' = <<>>
    /\ forked' = <<>>
    /\ out' = <<>>
    /\ ran' = <<>>
    /\ UNCHANGED <<pc, status, currentdir, child_pids, historyStack, file, cmd>>

Next ==
    \/ Help \/ Invalid \/ MoveToDir \/ MoveToDirRefused \/ MoveToDirNested \/ Whereami \/ History \/ ByeBye \/ Replay
    \/ Start \/ Background \/ Dalek \/ Repeat \/ DalekAll \/ BadArgument \/ WithComma
    \/ ChildExit \/ Main

Spec == Init /\ [][Next]_vars

\* the user types lines that are no valid command, help, and a few valid ones
NextArity ==
    \/ Invalid \/ Help \/ ByeBye \/ MoveToDir \/ Background

SpecArity == Init /\ [][NextArity]_vars

\* the user types the process commands
NextProc == Start \/ Background \/ Dalek \/ DalekAll \/ ChildExit

SpecProc == Init /\ [][NextProc]_vars

\* the user types repeat and dalekall
NextRepeat == Repeat \/ DalekAll

SpecRepeat == Init /\ [][NextRepeat]_vars

\* the user types the history commands and two commands to replay
NextHist == History \/ Replay \/ Whereami \/ Start

SpecHist == Init /\ [][NextHist]_vars

\* the user lists and clears the history, types a command with a comma, leaves
\* and launches the shell again
NextFile == History \/ Whereami \/ WithComma \/ ByeBye \/ Main

SpecFile == Init /\ [][NextFile]_vars

\* the user types valid commands, some with an argument that is no number
NextArg == BadArgument \/ Whereami \/ History \/ Background

SpecArg == Init /\ [][NextArg]_vars

\* the user changes directory and launches a child
NextDir == MoveToDir \/ MoveToDirRefused \/ MoveToDirNested \/ Background

SpecDir == Init /\ [][NextDir]_vars

\* the user types lines of every kind that forks no child: rejected ones, help,
\* byebye, the history commands, replay, and a movetodir that fails
NextPush == Help \/ Invalid \/ ByeBye \/ History \/ Replay \/ MoveToDirRefused \/ BadArgument

SpecPush == Init /\ [][NextPush]_vars

-----------------------------------------------------------------------------
(* Claims *)

Range(v) == {v[i] : i \in 1..Len(v)}

Last(v) == v[Len(v)]

\* the arity table of the specification: may the verb numbered sym take n arguments
ArityTable(sym, n) ==
    CASE sym = 0 -> n = 1
      [] sym = 1 -> n = 0
      [] sym = 2 -> n \in {0, 1}
      [] sym = 3 -> n = 0
      [] sym = 4 -> n = 1
      [] sym = 5 -> n >= 1
      [] sym = 6 -> n >= 1
      [] sym = 7 -> n = 1
      [] sym = 8 -> n >= 2
      [] sym = 9 -> n = 0
      [] OTHER -> FALSE

\* the line's verb is none of the ten keywords, or its argument count is not
\* the table's
Rejected(l) ==
    LET t == tokenize(l)
    IN  \/ t = <<>>
        \/ \A i \in 1..Len(KEYWORDS) : KEYWORDS[i] # t[1]
        \/ \E i \in 1..Len(KEYWORDS) : KEYWORDS[i] = t[1] /\ ~ArityTable(i - 1, Len(t) - 1)

\* C1: a turn of the loop on a line whose verb is unrecognized, or whose
\* argument count is not the arity table's, leaves the tracked directory, the
\* child pids and the history as they were, forks no process, signals none,
\* and does not push the line.
C1_RejectedLineHasNoEffect ==
    [][(pc = "run_sh" /\ Rejected(cmd'))
        => /\ currentdir' = currentdir
           /\ child_pids' = child_pids
           /\ historyStack' = historyStack
           /\ forked' = <<>>
           /\ sent' = <<>>
           /\ ran' = <<>>]_vars

\* C1 witness: "dalek 1 2" was read while pid 1 was a registered, running child,
\* the directory had been changed and the history held entries
C1_Witness ==
    /\ cmd = Words(<<"dalek", "1", "2">>)
    /\ pc = "run_sh"
    /\ ran = <<>>
    /\ child_pids = <<1>>
    /\ procs[1] # NoProc
    /\ currentdir # LaunchDir \o <<"/">>
    /\ Len(historyStack) = 2

\* C2: the loop ends, or status becomes 0, only in a turn on the line byebye
\* with no argument; after any other line the shell is still in the loop with
\* status 1.  (A turn that ends in an uncaught exception is left out here.)
C2_StoppedOnlyByExit ==
    [][(pc = "run_sh" /\ (pc' = "done" \/ status' = 0))
        => tokenize(cmd') = << <<"byebye">> >>]_vars

\* what the operation dispatched in this step is: the Command, when there is one
Dispatched(sym) == ran' # <<>> /\ Command(Last(ran')).commandNum = sym

Operand == Command(Last(ran'))

\* the pids of the children this step forked and did not wait for
Detached == {forked'[i].pid : i \in {j \in 1..Len(forked') : ~forked'[j].waited}}

\* C3: the set of registered pids is exactly the pids forked in background and
\* not since named by a dalek or swept by dalekall.  Step by step: a dalek of
\* pid leaves the set without pid, dalekall leaves it empty, any other step
\* (a child ending on its own and start among them) adds the pids it forked
\* in background and removes none.
C3_RegistryIsSpawnedNotTerminated ==
    [][Range(child_pids') =
         IF Dispatched(dalek_sym) THEN Range(child_pids) \ {stoi(Operand.args[1]).val}
         ELSE IF Dispatched(dalekall_sym) THEN {}
         ELSE Range(child_pids) \cup Detached]_vars

\* C4: a background command whose fork succeeds appends the child's pid, and
\* nothing else, to child_pids, and the loop goes on while the child, a new
\* process, still runs; when fork fails child_pids is as it was.
C4_BackgroundRegistersChild ==
    [][Dispatched(background_sym)
        => IF forked' # <<>>
           THEN /\ Len(forked') = 1
                /\ ~forked'[1].waited
                /\ procs[forked'[1].pid] = NoProc
                /\ procs'[forked'[1].pid] = [file |-> Operand.args[1], argv |-> Operand.args]
                /\ child_pids' = Append(child_pids, forked'[1].pid)
                /\ pc' = "run_sh"
           ELSE child_pids' = child_pids]_vars

\* C4 witness: a background child was forked and registered behind an older one
C4_Witness ==
    /\ cmd = Words(<<"background", "p", "a">>)
    /\ Len(forked) = 1
    /\ Len(child_pids) = 2
    /\ procs[child_pids[2]] # NoProc
    /\ pc = "run_sh"

\* v without the first of its elements equal to x
WithoutFirst(v, x) ==
    LET i == CHOOSE k \in 1..Len(v) : v[k] = x /\ \A j \in 1..(k - 1) : v[j] # x
    IN  [k \in 1..(Len(v) - 1) |-> IF k < i THEN v[k] ELSE v[k + 1]]

C6_DalekallSignalsAllAndClears ==
    [][Dispatched(dalekall_sym)
        => /\ child_pids' = <<>>
           /\ Range(sent') = Range(child_pids)
           /\ out' = <<[msg |-> "Exterminating", size |-> Len(child_pids),
                        pids |-> child_pids]>>]_vars

\* C6 witness: dalekall signalled two registered children
C6_Witness ==
    /\ cmd = Words(<<"dalekall">>)
    /\ Range(sent) = {1, 2}
    /\ child_pids = <<>>
    /\ out # <<>>

\* this step's forks all succeeded
NoForkFailed == \A i \in 1..Len(out') : out'[i].msg # "Failed forking child.."

\* C7 as claimed: "repeat n background P a1 ... ak", n >= 0, every fork
\* succeeding, forks n children, registers n more pids, and every child
\* executes P with the arguments a1 ... ak.
C7_RepeatBackgroundRunsP ==
    [][(/\ Dispatched(repeat_sym)
        /\ Len(Operand.args) >= 3
        /\ Operand.args[2] = <<"background">>
        /\ stoi(Operand.args[1]).val >= 0
        /\ NoForkFailed)
        => /\ Len(forked') = stoi(Operand.args[1]).val
           /\ Len(child_pids') = Len(child_pids) + stoi(Operand.args[1]).val
           /\ \A i \in 1..Len(forked') :
                /\ forked'[i].file = Operand.args[3]
                /\ forked'[i].argv = SubSeq(Operand.args, 3, Len(Operand.args))]_vars

\* C7 amended: "repeat n w1 ... wm", n >= 0, every fork succeeding, forks n
\* children in background, appends their n pids to child_pids, and every child
\* executes w1 with the arguments w1 ... wm: the words after n are the program
\* and its arguments, so after "repeat 2 background p a" the children execute
\* the program "background".
C7_RepeatRunsItsArguments ==
    [][(/\ Dispatched(repeat_sym)
        /\ stoi(Operand.args[1]).val >= 0
        /\ NoForkFailed)
        => /\ Len(forked') = stoi(Operand.args[1]).val
           /\ child_pids' = child_pids \o [i \in 1..Len(forked') |-> forked'[i].pid]
           /\ \A i \in 1..Len(forked') :
                /\ ~forked'[i].waited
                /\ forked'[i].file = Operand.args[2]
                /\ forked'[i].argv = Tail(Operand.args)]_vars

\* C7 witness: "repeat 2 background p a" forked two children
C7_Witness ==
    /\ cmd = Words(<<"repeat", "2", "background", "p", "a">>)
    /\ Len(forked) = 2
    /\ Len(child_pids) = 2
    /\ pc = "run_sh"

\* the line typed in this step is a replay command that was dispatched
TypedReplay == ran' # <<>> /\ ran'[1] = cmd' /\ Command(cmd').commandNum = replay_sym

ReplayArg == stoi(Command(cmd').args[1]).val

IsReplayEntry(e) == Command(e.cmdInput).commandNum = replay_sym

\* the stored replayNum of entry k may equal i, may differ from i: both when it
\* was never written
MayMatch(k, i) == ~historyStack[k].assigned \/ historyStack[k].replayNum = i

MayDiffer(k, i) == ~historyStack[k].assigned \/ historyStack[k].replayNum # i

\* C8 as claimed: replay i executes the entry at position i of the store
\* counted from the oldest (the back of the list) at the time of the query,
\* whether or not the history was listed before.
C8_ReplayUsesFreshOldestFirstIndex ==
    [][(/\ TypedReplay
        /\ ReplayArg \in 0..(Len(historyStack) - 1)
        /\ ~IsReplayEntry(historyStack[Len(historyStack) - ReplayArg]))
        => ran' = <<cmd', historyStack[Len(historyStack) - ReplayArg].cmdInput>>]_vars

\* C8 amended: replay i resolves i against the replayNum stored in the entries,
\* which is the number the latest listing wrote there (0 for the entry then
\* newest) and indeterminate for an entry no listing has numbered.  What it
\* executes, if anything, is the first entry from the front whose stored number
\* equals i, and that entry is no replay; it executes at most that one command.
C8_ReplayUsesStoredIndex ==
    [][TypedReplay
        => /\ Len(ran') <= 2
           /\ Len(ran') = 2
                => \E k \in 1..Len(historyStack) :
                     /\ historyStack[k].cmdInput = ran'[2]
                     /\ ~IsReplayEntry(historyStack[k])
                     /\ MayMatch(k, ReplayArg)
                     /\ \A j \in 1..(k - 1) : MayDiffer(j, ReplayArg)]_vars

\* C8 witness: after a listing numbered "start p" 0, "replay 0" executed it
C8_Witness ==
    /\ cmd = Words(<<"replay", "0">>)
    /\ ran = <<cmd, Words(<<"start", "p">>)>>
    /\ Len(historyStack) = 3
    /\ historyStack[2].cmdInput = Words(<<"history">>)
    /\ historyStack[3] = [cmdInput |-> Words(<<"start", "p">>), replayNum |-> 0,
                          assigned |-> TRUE]

\* the step lists the history: history with no argument was dispatched
Listing == Dispatched(history_sym) /\ Operand.numTokens = 1

\* the entries of the history after the step, without the one the step pushed
Listed == IF Len(historyStack') = Len(historyStack) + 1
          THEN Tail(historyStack') ELSE historyStack'

\* a step that adds an entry puts the line typed at the front and keeps the
\* others behind it in their order: entry 1 is the newest, the last the oldest
PushesAtFront ==
    Len(historyStack') = Len(historyStack) + 1
      => /\ historyStack'[1].cmdInput = cmd'
         /\ \A k \in 1..Len(historyStack) :
              historyStack'[k + 1].cmdInput = historyStack[k].cmdInput

\* C9 as claimed: a listing numbers the oldest entry 0 and the newest size-1.
C9_ListingNumbersOldestFirst ==
    [][Listing
        => \A k \in 1..Len(historyStack) :
             /\ Listed[k].assigned
             /\ Listed[k].replayNum = Len(historyStack) - k]_vars

\* C9 amended: a listing numbers the newest entry 0 and the others 1, 2, ... in
\* newest-to-oldest order, so the oldest entry receives size-1; it prints each
\* entry with that number.
C9_ListingNumbersNewestFirst ==
    [][/\ PushesAtFront
       /\ Listing
            => /\ \A k \in 1..Len(historyStack) :
                    /\ Listed[k].cmdInput = historyStack[k].cmdInput
                    /\ Listed[k].assigned
                    /\ Listed[k].replayNum = k - 1
               /\ Len(historyStack) > 0
                    => /\ Len(out') = Len(historyStack) + 1
                       /\ \A k \in 1..Len(historyStack) :
                            out'[k + 1] = [msg |-> "entry", iter |-> k - 1,
                                           text |-> historyStack[k].cmdInput]]_vars

\* C9 witness: "start p", then "whereami", then "history": whereami, the newer,
\* is numbered 0 and start p 1
C9_Witness ==
    /\ cmd = Words(<<"history">>)
    /\ Len(out) = 3
    /\ Len(historyStack) = 3
    /\ historyStack[2] = [cmdInput |-> Words(<<"whereami">>), replayNum |-> 0,
                          assigned |-> TRUE]
    /\ historyStack[3] = [cmdInput |-> Words(<<"start", "p">>), replayNum |-> 1,
                          assigned |-> TRUE]

\* the step wrote findReplayNum's diagnostic: the entry it matched is a replay
MatchedReplayEntry ==
    \E i \in 1..Len(out') :
        /\ out'[i].msg = "Invalid Command: "
        /\ Command(out'[i].text).commandNum = replay_sym

\* C10: a replay never executes an entry that is itself a replay; when the
\* entry its number matches is a replay it executes nothing: no fork, no
\* signal, and the tracked directory, child_pids and the run state are as they
\* were.
C10_ReplayOfReplayExecutesNothing ==
    [][TypedReplay
        => /\ \A i \in 2..Len(ran') : Command(ran'[i]).commandNum # replay_sym
           /\ MatchedReplayEntry
                => /\ ran' = <<cmd'>>
                   /\ forked' = <<>>
                   /\ sent' = <<>>
                   /\ currentdir' = currentdir
                   /\ child_pids' = child_pids
                   /\ status' = status
                   /\ pc' = "run_sh"]_vars

\* C10 witness: "replay 0" matched the entry "replay 0" in front of "start p"
C10_Witness ==
    /\ cmd = Words(<<"replay", "0">>)
    /\ ran = <<cmd>>
    /\ out = <<[msg |-> "Invalid Command: ", requester |-> <<"replay">>,
                text |-> Words(<<"replay", "0">>)]>>
    /\ Len(historyStack) = 3
    /\ historyStack[3].cmdInput = Words(<<"start", "p">>)
    /\ pc = "run_sh"

\* the raw texts of the entries of h, front first
Texts(h) == [k \in 1..Len(h) |-> h[k].cmdInput]

\* the step dispatched "history -c"
Clearing ==
    /\ Dispatched(history_sym)
    /\ Operand.numTokens = 2
    /\ Operand.args[1] = <<"-c">>

\* C11: when the turn on "history -c" is over the history list is empty (the
\* line itself was not pushed) and the history file does not exist, whatever
\* the list and the file were before.
C11_ClearEmptiesListAndFile ==
    [][Clearing => (historyStack' = <<>> /\ ~file'.exists /\ pc' = "run_sh")]_vars

\* C11 witness: "history -c" was typed and answered, the list is empty and
\* there is no file
C11_Witness ==
    /\ cmd = Words(<<"history", "-c">>)
    /\ ran = <<cmd>>
    /\ out = <<[msg |-> "History Cleared"]>>
    /\ historyStack = <<>>
    /\ file = NoFile
    /\ pc = "run_sh"

\* C12: listing the history (history with no argument, typed or replayed)
\* leaves the number of entries, their texts and their order as they were;
\* only the replayNum of the entries is written.  The entry the loop pushes
\* after the listing is not part of the listing.
C12_ListingKeepsContents ==
    [][Listing
        => /\ Len(Listed) = Len(historyStack)
           /\ Texts(Listed) = Texts(historyStack)
           /\ Len(historyStack') \in {Len(historyStack), Len(historyStack) + 1}]_vars

\* C12 witness: a second listing renumbered "start p" from 0 to 1 behind the
\* entry of the first listing; the texts are as pushed
C12_Witness ==
    /\ cmd = Words(<<"history">>)
    /\ ran = <<cmd>>
    /\ Texts(historyStack) = <<Words(<<"history">>), Words(<<"history">>),
                               Words(<<"start", "p">>)>>
    /\ historyStack[2].assigned /\ historyStack[2].replayNum = 0
    /\ historyStack[3].assigned /\ historyStack[3].replayNum = 1

\* C13: the shell ended with a history that is not empty (printToFile wrote
\* it) and is launched again (readFromFile loads it into the empty list): the
\* texts of the entries loaded are those of the entries saved, as many and in
\* the same order.
C13_SaveThenLoadKeepsTexts ==
    [][(pc = "done" /\ historyStack # <<>> /\ pc' = "run_sh")
        => Texts(historyStack') = Texts(historyStack)]_vars

\* the step is a turn of the loop: the shell wrote or dispatched something, or
\* left the loop
Turn == pc = "run_sh" /\ (out' # <<>> \/ ran' # <<>> \/ pc' # "run_sh")

\* C14: a turn on a line with no token (empty, or blanks only) ends with the
\* shell still in the loop, status 1: the line is reported as invalid, nothing
\* is dispatched and the history is as it was.
C14_EmptyLineIsInvalid ==
    [][(Turn /\ tokenize(cmd') = <<>>)
        => /\ pc' = "run_sh"
           /\ status' = 1
           /\ ran' = <<>>
           /\ historyStack' = historyStack
           /\ out' = <<[msg |-> "Invalid command: ", text |-> cmd']>>]_vars

\* C15: a turn on a line whose verb is a keyword and whose argument count is
\* the table's never ends in an uncaught exception, whatever the arguments
\* are: the shell is in the loop, or has left it through byebye.
C15_ValidLineNeverAborts ==
    [][(Turn /\ ~Rejected(cmd')) => pc' \in {"run_sh", "done"}]_vars

\* the directory the claimed rule makes of path: a path from "/" is absolute, a
\* path from "./" and any other path name a directory in the tracked one
NamedDir(path) ==
    IF path[1] = "/" THEN path
    ELSE IF Len(path) > 2 /\ path[1] = "." /\ path[2] = "/"
         THEN currentdir \o SubSeq(path, 3, Len(path))
    ELSE currentdir \o path

\* C16: movetodir path, when the directory the rule names exists, tracks it: a
\* path from "." or "/" as it is typed, any other path as a subdirectory of
\* the tracked directory (after "movetodir a", "movetodir b" tracks .../a/b/).
C16_ChangeDirFollowsTheRule ==
    [][(Dispatched(movetodir_sym) /\ NamedDir(Operand.args[1]) \in Directories)
        => currentdir' = (IF Operand.args[1][1] \in {".", "/"}
                          THEN Operand.args[1]
                          ELSE currentdir \o Operand.args[1]) \o <<"/">>]_vars

\* the diagnostic of a movetodir that failed
NotFoundLine(path) == [msg |-> "Directory not found", text |-> path]

\* C17: movetodir path, when opendir cannot open path, writes "Directory path:
\* not found" and leaves the tracked directory, child_pids, the children and
\* status as they were, the shell in its loop; and whenever it writes that
\* diagnostic the tracked directory is as it was.
C17_FailedChangeDirKeepsState ==
    [][Dispatched(movetodir_sym)
        => /\ Resolve(Operand.args[1]) \notin Directories
                => /\ out' = <<NotFoundLine(Operand.args[1])>>
                   /\ child_pids' = child_pids
                   /\ procs' = procs
                   /\ forked' = <<>>
                   /\ sent' = <<>>
                   /\ status' = 1
                   /\ pc' = "run_sh"
           /\ out' # <<>> => currentdir' = currentdir]_vars

\* C17 witness: "movetodir nodir" was refused while /home/a/ was tracked and a
\* child was registered
C17_Witness ==
    /\ cmd = Words(<<"movetodir", "nodir">>)
    /\ out = <<NotFoundLine(<<"nodir">>)>>
    /\ currentdir = <<"/", "home", "/", "a", "/">>
    /\ child_pids = <<1>>
    /\ procs[1] # NoProc
    /\ pc = "run_sh"

\* the claimed policy: the line is a valid command (a keyword with the table's
\* argument count), not byebye, not history with an argument, not "help"
ShouldPush(l) ==
    LET t == tokenize(l)
    IN  /\ ~Rejected(l)
        /\ t[1] # <<"byebye">>
        /\ ~(t[1] = <<"history">> /\ Len(t) > 1)
        /\ l # <<"help">>

\* C18: a turn of the loop that ends (no uncaught exception) puts the line at
\* the front of the history, the entries that were there behind it in their
\* order, if and only if the line is a valid command, not byebye, not a
\* history command with an argument and not "help"; whether the operation did
\* what it was asked does not matter.  A line that is not pushed leaves the
\* texts as they were, or, for "history -c", no entry.
C18_PushedIffValidAndNotExempt ==
    [][(Turn /\ pc' # "aborted")
        => IF ShouldPush(cmd')
           THEN Texts(historyStack') = <<cmd'>> \o Texts(historyStack)
           ELSE \/ Texts(historyStack') = Texts(historyStack)
                \/ Clearing /\ historyStack' = <<>>]_vars

\* C18 witness: "replay 0" on the empty history matched nothing and
\* "movetodir nodir" was refused; both were pushed
C18_Witness ==
    /\ cmd = Words(<<"movetodir", "nodir">>)
    /\ out = <<NotFoundLine(<<"nodir">>)>>
    /\ Texts(historyStack) = <<Words(<<"movetodir", "nodir">>), Words(<<"replay", "0">>)>>
    /\ pc = "run_sh"

\* entry k carries the number i, written by a listing
Carries(k, i) == historyStack[k].assigned /\ historyStack[k].replayNum = i

\* C19: replay i executes the entry the latest listing numbered i, when that
\* entry is no replay, and only that one: an entry pushed since the latest
\* listing carries no number and no i selects it; and no two entries carry
\* the same number.
C19_ReplaySelectsOnlyListedEntries ==
    [][TypedReplay
        => /\ Len(ran') = 2
                => \E k \in 1..Len(historyStack) :
                      Carries(k, ReplayArg) /\ historyStack[k].cmdInput = ran'[2]
           /\ \A k \in 1..Len(historyStack) :
                (Carries(k, ReplayArg) /\ ~IsReplayEntry(historyStack[k]))
                    => ran' = <<cmd', historyStack[k].cmdInput>>
           /\ \A j, k \in 1..Len(historyStack) :
                (j # k /\ historyStack[j].assigned /\ historyStack[k].assigned)
                    => historyStack[j].replayNum # historyStack[k].replayNum]_vars

\* C20: no pid is in child_pids twice.
C20_RegistryHasNoDuplicate ==
    \A i, j \in 1..Len(child_pids) : i # j => child_pids[i] # child_pids[j]

=============================================================================
